---- MODULE Spec2Model ----
(***************************************************************************)
(* Batch transaction execution engine of src/src/lib/solana.ts:            *)
(* executeBatch runs buildTransferTx + sendWithRetry for every wallet      *)
(* under a p-limit concurrency cap, against a relay (src/unnamed/part_002) *)
(* that passes /blockhash and /sendRaw through to the ledger.              *)
(*                                                                         *)
(* One step of the model is one macrotask of the JavaScript event loop: a  *)
(* relay response or a timer delivered to the awaiting run, together with  *)
(* every microtask continuation it triggers (the run's next fetch call,    *)
(* onResult, the p-limit slot release that starts the next queued run,     *)
(* and the settling of Promise.all).                                       *)
(*                                                                         *)
(* Spec and FairSpec describe the engine. Four components are described    *)
(* on their own, each with its own variable: SpecDispatch (the p-limit     *)
(* pool and handleExecute's clamp), SpecAmount (toRawAmount of App.tsx),   *)
(* SpecBuild (buildTransferTx) and SpecRelay (the relay's middleware       *)
(* chain and routes).                                                      *)
(***************************************************************************)
EXTENDS Integers, Sequences, FiniteSets, TLC

\* ------------------------------------------------------------------ bounds
NumWallets == 2
MaxBh == 2

\* --------------------------------------------------------- program constants
MaxLen == 4
MaxDecimals == 3
MaxRetriesArg2 == 7
MaxText == 5
MaxGenerate == 2
MaxNow == 2
MaxBatches == 2
MaxLines == 31
MaxRequested == 32
MaxSigners == 31
MaxAmount == 2
MaxFee == 2
MaxRetries == 3
ComputeUnits == 200000
BaseDelayMs == 150

Wallets == 1..NumWallets
ConcurrencyInputs == 0..NumWallets
Null == "null"

VARIABLES
    concurrency,   \* executeBatch's concurrency argument
    plan,          \* the TransferPlan shared by all runs
    ledgerBh,      \* the ledger's latest blockhash (external)
    batch,         \* executeBatch's promise: fetching / running / resolved / rejected
    cachedBh,      \* the shared BlockhashInfo slot
    activeCount,   \* p-limit's count of running tasks
    pc,            \* per wallet: position of its task
    attempt,       \* per wallet: sendWithRetry's loop counter
    tx,            \* per wallet: the Transaction object of its run
    msg,           \* per wallet: the message held by the catch block
    bhResp,        \* per wallet: relay's /blockhash response in flight
    outcome,       \* per wallet: the WalletSendResult of its run
    sent,          \* per wallet: the /sendRaw request bodies, in order
    observed,      \* per wallet: the /sendRaw responses, in order
    fetched,       \* per wallet: the BlockhashInfos its own refreshes returned
    emitted,       \* the onResult calls, in order
    returned,      \* the array executeBatch resolved with
    initialBh,     \* the BlockhashInfo executeBatch obtained before the tasks
    waited,        \* per wallet: the delays of its setTimeout calls, in order
    refreshCalls,  \* per wallet: the number of getBlockhash() calls of its run
    dispatch,      \* p-limit dispatcher seen alone: requested limit, queue, active
    norm,          \* toRawAmount: the input text and what the call produced
    build,         \* buildTransferTx: its arguments and the transaction built
    relay,         \* the relay server: its key, the request at hand, what ran
    retry,         \* sendWithRetry called on its own with a maxRetries argument
    wallet,        \* parseWalletBatch: the text given and what the call produced
    dash           \* the dashboard: wallets, selection, batches, results

vars == <<concurrency, plan, ledgerBh, batch, cachedBh, activeCount, pc, attempt,
          tx, msg, bhResp, outcome, sent, observed, fetched, emitted, returned,
          initialBh, waited, refreshCalls, dispatch, norm, build, relay, retry,
          wallet, dash>>

\* The variables of executeBatch and its runs.
engine == <<concurrency, plan, ledgerBh, batch, cachedBh, activeCount, pc, attempt,
            tx, msg, bhResp, outcome, sent, observed, fetched, emitted, returned,
            initialBh, waited, refreshCalls>>

\* The state of the other components, which the batch engine leaves alone.
aux == <<dispatch, norm, build, relay, retry, wallet, dash>>
Idle == [phase |-> "idle"]
AuxIdle ==
    /\ dispatch = Idle /\ norm = Idle /\ build = Idle /\ relay = Idle
    /\ retry = Idle /\ wallet = Idle /\ dash = Idle

\* ------------------------------------------------------------ relay / ledger
\* let cachedBh: BlockhashInfo | null = null
NoBlockhash == [blockhash |-> 0, lastValidBlockHeight |-> 0]

\* What connection.getLatestBlockhash answers while the ledger's latest hash is h.
LatestBlockhash(h) == [blockhash |-> h, lastValidBlockHeight |-> h + 150]

\* The relay's answer to one GET /blockhash: res.json({blockhash, lastValidBlockHeight}),
\* or a non-2xx status (500 from the handler's catch, 401 from the auth middleware).
NoResponse == [status |-> "none"]
\* Mutant: the answer is served from the shared slot, not from a call of its own.
BlockhashOkCoalesced(info) == [status |-> "ok", info |-> cachedBh]
BlockhashOk(info) == [status |-> "ok", info |-> info]
BlockhashError == [status |-> "failed"]

\* Failure messages a /sendRaw call can end with: the relay's 500 error text
\* (stale hash), the auth middleware's 401 body, fetch's network TypeError.
MsgStale == "Blockhash not found"
MsgUnauthorized == "Unauthorized"
MsgNetwork == "Failed to fetch"

\* The ways one POST /sendRaw fails: a non-2xx answer with a JSON body (whose
\* error text may be empty or missing), or fetch itself throwing.
SendFailures ==
    {[kind |-> "http", status |-> 500, error |-> MsgStale],
     [kind |-> "http", status |-> 401, error |-> MsgUnauthorized],
     [kind |-> "http", status |-> 500, error |-> ""],
     [kind |-> "network", message |-> MsgNetwork]}

\* `sendRaw failed: ${res.status}`
StatusMessage(status) ==
    CASE status = 401 -> "sendRaw failed: 401"
      [] status = 500 -> "sendRaw failed: 500"

\* throw new Error(body.error || `sendRaw failed: ${res.status}`), or fetch's own error.
ThrownMessage(f) ==
    IF f.kind = "network" THEN f.message
    ELSE IF f.error # "" THEN f.error ELSE StatusMessage(f.status)

ErrorMessages == {ThrownMessage(f) : f \in SendFailures}

\* data.signature of a 2xx body that has no signature field.
Undefined == <<>>

\* Mutant: the pattern without its i flag, /BlockhashNotFound|blockhash|expired/.
NeedsHashCaseSensitive(m) == m \in {"BlockhashNotFound",
                                    "block height exceeded: blockhash expired",
                                    "Signature has expired"}

\* Mutant: every failure is taken for a stale blockhash.
NeedsHashAlways(m) == TRUE

\* /BlockhashNotFound|blockhash|expired/i.test(msg)
NeedsHash(m) == m \in {"BlockhashNotFound", "Blockhash not found",
                       "block height exceeded: blockhash expired",
                       "Signature has expired"}

\* ------------------------------------------------------------- transactions
\* Mutant: applyBlockhash without `tx.recentBlockhash = info.blockhash`.
ApplyBlockhashKeepsHash(t, signer, info) ==
    [t EXCEPT !.lastValidBlockHeight = info.lastValidBlockHeight,
              !.signedBy = signer,
              !.signedOver = t.recentBlockhash]

\* Mutant: applyBlockhash without `tx.lastValidBlockHeight = info.lastValidBlockHeight`.
ApplyBlockhashKeepsHeight(t, signer, info) ==
    [t EXCEPT !.recentBlockhash = info.blockhash,
              !.signedBy = signer,
              !.signedOver = info.blockhash]

\* Mutant: applyBlockhash without `tx.sign(signer)`.
ApplyBlockhashUnsigned(t, signer, info) ==
    [t EXCEPT !.recentBlockhash = info.blockhash,
              !.lastValidBlockHeight = info.lastValidBlockHeight]

ApplyBlockhash(t, signer, info) ==
    [t EXCEPT !.recentBlockhash = info.blockhash,
              !.lastValidBlockHeight = info.lastValidBlockHeight,
              !.signedBy = signer,
              !.signedOver = info.blockhash]

\* getAssociatedTokenAddress(plan.mint, owner), for the one mint of the plan.
Ata(owner) == <<"ata", owner>>
Destination == "destination"

\* The instructions buildTransferTx uses.
SetComputeUnitPrice(fee) == [kind |-> "setComputeUnitPrice", microLamports |-> fee]
SetComputeUnitLimit(n) == [kind |-> "setComputeUnitLimit", units |-> n]
CreateAtaIdempotent(payer, ata, owner) ==
    [kind |-> "createAssociatedTokenAccountIdempotent", payer |-> payer,
     ata |-> ata, owner |-> owner]
CreateTransfer(source, dest, owner, amount) ==
    [kind |-> "transfer", source |-> source, destination |-> dest,
     owner |-> owner, amount |-> amount]

\* plan.priorityFeeMicrolamports && plan.priorityFeeMicrolamports > 0, the
\* field being optional.
HasPriorityFee(p) ==
    /\ "priorityFeeMicrolamports" \in DOMAIN p
    /\ p.priorityFeeMicrolamports # 0
    /\ p.priorityFeeMicrolamports > 0

\* Mutant: the compute unit price added after the compute unit limit.
InstructionsPriceSecond(from, p) ==
    <<SetComputeUnitLimit(ComputeUnits)>>
        \o (IF HasPriorityFee(p) THEN <<SetComputeUnitPrice(p.priorityFeeMicrolamports)>>
            ELSE <<>>)
        \o <<CreateAtaIdempotent(from, Ata(Destination), Destination),
             CreateTransfer(Ata(from), Ata(Destination), from, p.amountRaw)>>

\* tx.add(setComputeUnitPrice) when a fee is set, then
\* tx.add(setComputeUnitLimit({ units: 200_000 }), ...ixs)
Instructions(from, p) ==
    (IF HasPriorityFee(p) THEN <<SetComputeUnitPrice(p.priorityFeeMicrolamports)>>
     ELSE <<>>)
        \o <<SetComputeUnitLimit(ComputeUnits),
             CreateAtaIdempotent(from, Ata(Destination), Destination),
             CreateTransfer(Ata(from), Ata(Destination), from, p.amountRaw)>>

BuildTransferTx(from, p, info) ==
    ApplyBlockhash([feePayer |-> from,
                    instructions |-> Instructions(from, p),
                    transfer |-> [owner |-> from, amount |-> p.amountRaw],
                    recentBlockhash |-> 0,
                    lastValidBlockHeight |-> 0,
                    signedBy |-> Null,
                    signedOver |-> 0], from, info)

\* The JSON body of one POST /sendRaw.
SendBody(t) ==
    [tx |-> [feePayer |-> t.feePayer, instructions |-> t.instructions,
             transfer |-> t.transfer,
             recentBlockhash |-> t.recentBlockhash,
             signedBy |-> t.signedBy, signedOver |-> t.signedOver],
     blockhash |-> t.recentBlockhash,
     lastValidBlockHeight |-> t.lastValidBlockHeight]

\* The signature the ledger returns for an accepted transaction.
Signature(body) == <<"sig", body.tx.signedBy, body.tx.signedOver>>

\* ------------------------------------------------------------- p-limit
\* Mutant: Promise.all over the bare tasks, no p-limit.
LimitUnbounded(c) == NumWallets

\* pLimit(Math.max(1, concurrency)): the number of tasks p-limit lets run.
Limit(c) == IF c > 1 THEN c ELSE 1

\* The head of p-limit's queue: tasks are queued in wallet order.
NextQueued ==
    IF \E v \in Wallets : pc[v] = "queued"
    THEN CHOOSE v \in Wallets : pc[v] = "queued" /\ \A u \in Wallets : pc[u] = "queued" => v <= u
    ELSE 0

\* for (attempt = 1; attempt <= maxRetries; ...): the test `attempt === maxRetries`.
IsLastAttempt(a) == a = MaxRetries

\* Mutant: a loop that never advances its counter.
NextAttemptStuck(a) == a

\* for (...; attempt <= maxRetries; attempt++)
NextAttempt(a) == a + 1
LoopContinues(a) == a <= MaxRetries

\* Mutant: the first failure's message is kept for the outcome.
CaughtMessageFirst(held, m) == IF held = Null THEN m ELSE held

\* const msg = err instanceof Error ? err.message : String(err)
CaughtMessage(held, m) == m

\* Mutant: the same delay after every attempt.
BackoffConstant(a) == BaseDelayMs

\* const backoffMs = 150 * attempt
BackoffMs(a) == BaseDelayMs * a

\* Promise.all(tasks): rejected by the first rejected task, resolved once all are fulfilled.
Settle(b, p) ==
    IF b # "running" THEN b
    ELSE IF \E v \in Wallets : p[v] = "thrown" THEN "rejected"
    ELSE IF \A v \in Wallets : p[v] = "done" THEN "resolved"
    ELSE "running"

\* Mutant: a rejected task empties p-limit's queue, cancelling the waiting runs.
ReleaseFailFast(w, final, txw, bh) ==
    LET nxt == IF final = "thrown" THEN 0 ELSE NextQueued
        built(v) == BuildTransferTx(v, plan, bh)
    IN  /\ pc' = [v \in Wallets |-> IF v = w THEN final
                                    ELSE IF v = nxt THEN "submitting"
                                    ELSE IF final = "thrown" /\ pc[v] = "queued" THEN "thrown"
                                    ELSE pc[v]]
        /\ attempt' = [v \in Wallets |-> IF v = nxt THEN 1 ELSE attempt[v]]
        /\ tx' = [v \in Wallets |-> IF v = w THEN txw
                                    ELSE IF v = nxt THEN built(v) ELSE tx[v]]
        /\ sent' = [v \in Wallets |-> IF v = nxt THEN <<SendBody(built(v))>> ELSE sent[v]]
        /\ activeCount' = IF nxt = 0 THEN activeCount - 1 ELSE activeCount
        /\ batch' = Settle(batch, pc')

\* Mutant: a waiting run is built from the batch's initial blockhash, not from
\* the cached one.
ReleaseInitialHash(w, final, txw, bh) ==
    LET nxt == NextQueued
        built(v) == BuildTransferTx(v, plan, initialBh)
    IN  /\ pc' = [v \in Wallets |-> IF v = w THEN final
                                    ELSE IF v = nxt THEN "submitting" ELSE pc[v]]
        /\ attempt' = [v \in Wallets |-> IF v = nxt THEN 1 ELSE attempt[v]]
        /\ tx' = [v \in Wallets |-> IF v = w THEN txw
                                    ELSE IF v = nxt THEN built(v) ELSE tx[v]]
        /\ sent' = [v \in Wallets |-> IF v = nxt THEN <<SendBody(built(v))>> ELSE sent[v]]
        /\ activeCount' = IF nxt = 0 THEN activeCount - 1 ELSE activeCount
        /\ batch' = Settle(batch, pc')

\* The task of wallet w settles (final = "done": sendWithRetry returned and
\* onResult ran; final = "thrown": it rejected). p-limit's next() then frees
\* the slot and starts the head of the queue, whose task builds its transaction
\* from the cached blockhash bh and makes its first /sendRaw call.
Release(w, final, txw, bh) ==
    LET nxt == NextQueued
        built(v) == BuildTransferTx(v, plan, bh)
    IN  /\ pc' = [v \in Wallets |-> IF v = w THEN final
                                    ELSE IF v = nxt THEN "submitting" ELSE pc[v]]
        /\ attempt' = [v \in Wallets |-> IF v = nxt THEN 1 ELSE attempt[v]]
        /\ tx' = [v \in Wallets |-> IF v = w THEN txw
                                    ELSE IF v = nxt THEN built(v) ELSE tx[v]]
        /\ sent' = [v \in Wallets |-> IF v = nxt THEN <<SendBody(built(v))>> ELSE sent[v]]
        /\ activeCount' = IF nxt = 0 THEN activeCount - 1 ELSE activeCount
        /\ batch' = Settle(batch, pc')

\* A run that has not returned has no WalletSendResult.
NoOutcome == [pending |-> TRUE]

\* return { wallet, signature } / return { wallet, error }
Confirmed(w, sig) == [wallet |-> w, signature |-> sig]
Failed(w, m) == [wallet |-> w, error |-> m]

\* Mutant: executeBatch returns the outcomes in the order the tasks fulfilled.
FinishCompletionOrder(w, res, txw, bh) ==
    /\ outcome' = [outcome EXCEPT ![w] = res]
    /\ emitted' = Append(emitted, res)
    /\ Release(w, "done", txw, bh)
    /\ returned' = IF batch = "running" /\ batch' = "resolved" THEN emitted' ELSE returned

\* sendWithRetry returns res; the task calls onResult?.(res) and fulfils.
Finish(w, res, txw, bh) ==
    /\ outcome' = [outcome EXCEPT ![w] = res]
    /\ emitted' = Append(emitted, res)
    /\ Release(w, "done", txw, bh)
    /\ returned' = IF batch = "running" /\ batch' = "resolved"
                   THEN [v \in Wallets |-> outcome'[v]] ELSE returned

\* ------------------------------------------------------------------ Init
\* executeBatch has been called and has done nothing yet.
EngineFresh ==
    /\ ledgerBh = 1
    /\ batch = "fetching"
    /\ cachedBh = NoBlockhash
    /\ activeCount = 0
    /\ pc = [w \in Wallets |-> "new"]
    /\ attempt = [w \in Wallets |-> 0]
    /\ tx = [w \in Wallets |-> Null]
    /\ msg = [w \in Wallets |-> Null]
    /\ bhResp = [w \in Wallets |-> NoResponse]
    /\ outcome = [w \in Wallets |-> NoOutcome]
    /\ sent = [w \in Wallets |-> <<>>]
    /\ observed = [w \in Wallets |-> <<>>]
    /\ fetched = [w \in Wallets |-> <<>>]
    /\ emitted = <<>>
    /\ returned = <<>>
    /\ initialBh = NoBlockhash
    /\ waited = [w \in Wallets |-> <<>>]
    /\ refreshCalls = [w \in Wallets |-> 0]

Init ==
    /\ concurrency \in ConcurrencyInputs
    /\ plan \in {[destOnCurve |-> b, amountRaw |-> 5] : b \in BOOLEAN}
    /\ EngineFresh
    /\ AuxIdle

\* The engine as the other components see it: not running.
EngineIdle ==
    /\ concurrency = 1
    /\ plan = [destOnCurve |-> TRUE, amountRaw |-> 5]
    /\ EngineFresh

\* ------------------------------------------------------------ executeBatch
\* cachedBh = await nextBh() throws: executeBatch rejects before any task exists.
InitialBlockhashFails ==
    /\ batch = "fetching"
    /\ batch' = "rejected"
    /\ UNCHANGED <<aux, refreshCalls, concurrency, plan, waited, initialBh, ledgerBh, cachedBh, activeCount, pc, attempt, tx,
                   msg, bhResp, outcome, sent, observed, fetched, emitted, returned>>

\* cachedBh = await nextBh() returns; wallets.map(limit(...)) queues one task per
\* wallet and p-limit starts the first Limit(concurrency) of them. A task whose
\* buildTransferTx throws (getAssociatedTokenAddress rejects an off-curve
\* destination) rejects at once and hands its slot to the next, so with such a
\* plan every task rejects.
InitialBlockhash ==
    /\ batch = "fetching"
    /\ cachedBh' = LatestBlockhash(ledgerBh)
    /\ initialBh' = cachedBh'
    /\ LET started == IF plan.destOnCurve
                      THEN {v \in Wallets : v <= Limit(concurrency)} ELSE {}
           built(v) == BuildTransferTx(v, plan, cachedBh')
       IN  /\ pc' = [v \in Wallets |-> IF ~plan.destOnCurve THEN "thrown"
                                       ELSE IF v \in started THEN "submitting" ELSE "queued"]
           /\ attempt' = [v \in Wallets |-> IF v \in started THEN 1 ELSE 0]
           /\ tx' = [v \in Wallets |-> IF v \in started THEN built(v) ELSE Null]
           /\ sent' = [v \in Wallets |-> IF v \in started THEN <<SendBody(built(v))>> ELSE <<>>]
           /\ activeCount' = Cardinality(started)
    /\ batch' = Settle("running", pc')
    /\ UNCHANGED <<aux, refreshCalls, concurrency, plan, waited, ledgerBh, msg, bhResp, outcome, observed, fetched,
                   emitted, returned>>

\* ----------------------------------------------------------- sendWithRetry
\* The relay answers 2xx with a signature: return { wallet, signature }.
SendAccepted(w) ==
    /\ pc[w] = "submitting"
    /\ LET body == sent[w][Len(sent[w])]
           sig == Signature(body)
       IN  /\ observed' = [observed EXCEPT ![w] = Append(@, [ok |-> TRUE, signature |-> sig])]
           /\ Finish(w, Confirmed(w, sig), tx[w], cachedBh)
    /\ UNCHANGED <<aux, refreshCalls, concurrency, plan, waited, initialBh, ledgerBh, cachedBh, msg, bhResp, fetched>>

\* The relay answers 2xx with a JSON body without a signature field:
\* return { wallet, signature: data.signature } with data.signature undefined.
SendAcceptedNoSignature(w) ==
    /\ pc[w] = "submitting"
    /\ observed' = [observed EXCEPT ![w] = Append(@, [ok |-> TRUE, signature |-> Undefined])]
    /\ Finish(w, Confirmed(w, Undefined), tx[w], cachedBh)
    /\ UNCHANGED <<aux, refreshCalls, concurrency, plan, waited, initialBh, ledgerBh, cachedBh, msg, bhResp, fetched>>

\* The call fails with message m (non-2xx body.error, or fetch throws): the catch block.
SendFailed(w, m) ==
    /\ pc[w] = "submitting"
    /\ observed' = [observed EXCEPT ![w] = Append(@, [ok |-> FALSE, error |-> m])]
    /\ msg' = [msg EXCEPT ![w] = CaughtMessage(@, m)]
    /\ IF NeedsHash(msg'[w])
       THEN \* const fresh = await getBlockhash(): GET /blockhash is in flight
            /\ pc' = [pc EXCEPT ![w] = "refreshing"]
            /\ UNCHANGED <<batch, activeCount, attempt, tx, sent, outcome, emitted, returned>>
       ELSE IF IsLastAttempt(attempt[w])
       THEN Finish(w, Failed(w, msg'[w]), tx[w], cachedBh)
       ELSE \* await setTimeout(150 * attempt)
            /\ pc' = [pc EXCEPT ![w] = "backoff"]
            /\ UNCHANGED <<batch, activeCount, attempt, tx, sent, outcome, emitted, returned>>
    /\ waited' = IF pc'[w] = "backoff"
                 THEN [waited EXCEPT ![w] = Append(@, BackoffMs(attempt[w]))] ELSE waited
    /\ refreshCalls' = IF pc'[w] = "refreshing"
                       THEN [refreshCalls EXCEPT ![w] = @ + 1] ELSE refreshCalls
    /\ UNCHANGED <<aux, concurrency, plan, initialBh, ledgerBh, cachedBh, bhResp, fetched>>

\* The relay handles the run's GET /blockhash: the ledger's latest hash, or a failure.
RelayBlockhash(w, ok) ==
    /\ pc[w] = "refreshing"
    /\ bhResp[w].status = "none"
    /\ bhResp' = [bhResp EXCEPT ![w] = IF ok THEN BlockhashOk(LatestBlockhash(ledgerBh))
                                              ELSE BlockhashError]
    /\ UNCHANGED <<aux, refreshCalls, concurrency, plan, waited, initialBh, ledgerBh, batch, cachedBh, activeCount, pc, attempt,
                   tx, msg, outcome, sent, observed, fetched, emitted, returned>>

\* nextBh: cachedBh = await getBh(); return cachedBh. Then applyBlockhash(tx, signer,
\* fresh), and the test of the last attempt.
BlockhashDelivered(w) ==
    /\ pc[w] = "refreshing"
    /\ bhResp[w].status = "ok"
    /\ cachedBh' = bhResp[w].info
    /\ fetched' = [fetched EXCEPT ![w] = Append(@, bhResp[w].info)]
    /\ bhResp' = [bhResp EXCEPT ![w] = NoResponse]
    /\ LET txw == ApplyBlockhash(tx[w], w, cachedBh')
       IN  IF IsLastAttempt(attempt[w])
           THEN Finish(w, Failed(w, msg[w]), txw, cachedBh')
           ELSE /\ pc' = [pc EXCEPT ![w] = "backoff"]
                /\ tx' = [tx EXCEPT ![w] = txw]
                /\ UNCHANGED <<batch, activeCount, attempt, sent, outcome, emitted, returned>>
    /\ waited' = IF pc'[w] = "backoff"
                 THEN [waited EXCEPT ![w] = Append(@, BackoffMs(attempt[w]))] ELSE waited
    /\ UNCHANGED <<aux, refreshCalls, concurrency, plan, initialBh, ledgerBh, msg, observed>>

\* fetchBlockhash throws inside the catch block: nothing catches it, sendWithRetry
\* rejects, and so does the task (onResult is not called).
BlockhashFailed(w) ==
    /\ pc[w] = "refreshing"
    /\ bhResp[w].status = "failed"
    /\ bhResp' = [bhResp EXCEPT ![w] = NoResponse]
    /\ Release(w, "thrown", tx[w], cachedBh)
    /\ UNCHANGED <<aux, refreshCalls, concurrency, plan, waited, initialBh, ledgerBh, cachedBh, msg, outcome, observed, fetched,
                   emitted, returned>>

\* The backoff timer fires: attempt++, the loop test, and the next POST /sendRaw;
\* when the loop test fails, return { wallet, error: 'exhausted retries' }.
BackoffElapsed(w) ==
    /\ pc[w] = "backoff"
    /\ IF LoopContinues(NextAttempt(attempt[w]))
       THEN /\ pc' = [pc EXCEPT ![w] = "submitting"]
            /\ attempt' = [attempt EXCEPT ![w] = NextAttempt(@)]
            /\ sent' = [sent EXCEPT ![w] = Append(@, SendBody(tx[w]))]
            /\ UNCHANGED <<batch, activeCount, tx, outcome, emitted, returned>>
       ELSE Finish(w, Failed(w, "exhausted retries"), tx[w], cachedBh)
    /\ UNCHANGED <<aux, refreshCalls, concurrency, plan, waited, initialBh, ledgerBh, cachedBh, msg, bhResp, observed, fetched>>

\* The ledger produces a new block: its latest blockhash changes.
LedgerAdvance ==
    /\ ledgerBh < MaxBh
    /\ ledgerBh' = ledgerBh + 1
    /\ UNCHANGED <<aux, refreshCalls, concurrency, plan, waited, initialBh, batch, cachedBh, activeCount, pc, attempt, tx, msg,
                   bhResp, outcome, sent, observed, fetched, emitted, returned>>

Next ==
    \/ InitialBlockhashFails
    \/ InitialBlockhash
    \/ \E w \in Wallets : SendAccepted(w)
    \/ \E w \in Wallets : SendAcceptedNoSignature(w)
    \/ \E w \in Wallets, m \in ErrorMessages : SendFailed(w, m)
    \/ \E w \in Wallets, ok \in BOOLEAN : RelayBlockhash(w, ok)
    \/ \E w \in Wallets : BlockhashDelivered(w)
    \/ \E w \in Wallets : BlockhashFailed(w)
    \/ \E w \in Wallets : BackoffElapsed(w)
    \/ LedgerAdvance

Spec == Init /\ [][Next]_vars

\* ------------------------------------------------- the dispatcher on its own
\* MAX_WALLETS in App.tsx, the ceiling handleExecute applies.
MAX_WALLETS == 30

Min(a, b) == IF a < b THEN a ELSE b

\* handleExecute: Math.min(MAX_WALLETS, Math.max(1, concurrency || 1))
SafeConcurrency(c) ==
    LET orOne == IF c = 0 THEN 1 ELSE c
    IN  Min(MAX_WALLETS, IF orOne > 1 THEN orOne ELSE 1)

RequestedInputs == (0 - 1)..MaxRequested

\* wallets.map((w) => limit(...)) with c the concurrency argument: p-limit
\* starts Limit(c) of the n tasks at once and queues the rest.
Started(c, n, caller) ==
    LET a == Min(Limit(c), n)
    IN  [phase |-> IF n = 0 THEN "resolved" ELSE "running", caller |-> caller,
         requested |-> c, signers |-> n, limit |-> Limit(c),
         active |-> a, queued |-> n - a]

\* executeBatch is called with the requested concurrency as it is.
ExecuteBatchCalled ==
    /\ dispatch.phase = "requested"
    /\ dispatch' = Started(dispatch.requested, dispatch.signers, "direct")
    /\ UNCHANGED <<engine, norm, build, relay, retry, wallet, dash>>

\* handleExecute refuses an empty selection and passes safeConcurrency on.
HandleExecute ==
    /\ dispatch.phase = "requested"
    /\ dispatch.signers >= 1
    /\ dispatch' = Started(SafeConcurrency(dispatch.requested), dispatch.signers, "handleExecute")
    /\ UNCHANGED <<engine, norm, build, relay, retry, wallet, dash>>

\* One task settles: p-limit starts the head of its queue in its place.
TaskSettles ==
    /\ dispatch.phase = "running"
    /\ dispatch.active > 0
    /\ LET q == dispatch.queued
           a == IF q > 0 THEN dispatch.active ELSE dispatch.active - 1
       IN  dispatch' = [dispatch EXCEPT !.queued = IF q > 0 THEN q - 1 ELSE 0,
                                        !.active = a,
                                        !.phase = IF a = 0 THEN "resolved" ELSE "running"]
    /\ UNCHANGED <<engine, norm, build, relay, retry, wallet, dash>>

DispatchInit ==
    /\ dispatch \in {[phase |-> "requested", requested |-> c, signers |-> n] :
                        c \in RequestedInputs, n \in 0..MaxSigners}
    /\ norm = Idle /\ build = Idle /\ relay = Idle
    /\ retry = Idle /\ wallet = Idle /\ dash = Idle
    /\ EngineIdle

DispatchNext ==
    \/ ExecuteBatchCalled
    \/ HandleExecute
    \/ TaskSettles

SpecDispatch == DispatchInit /\ [][DispatchNext]_vars

\* ------------------------------------------------------------- toRawAmount
\* A string is the sequence of its characters.
Digits == {"0", "1", "2", "3", "4", "5", "6", "7", "8", "9"}
Alphabet == {"0", "1", "9", ".", "x", " ", "-"}

DigitValue(c) ==
    CASE c = "0" -> 0 [] c = "1" -> 1 [] c = "2" -> 2 [] c = "3" -> 3 [] c = "4" -> 4
      [] c = "5" -> 5 [] c = "6" -> 6 [] c = "7" -> 7 [] c = "8" -> 8 [] c = "9" -> 9

\* amount.trim()
RECURSIVE TrimStart(_)
TrimStart(s) == IF s # <<>> /\ Head(s) = " " THEN TrimStart(Tail(s)) ELSE s
RECURSIVE TrimEnd(_)
TrimEnd(s) ==
    IF s # <<>> /\ s[Len(s)] = " " THEN TrimEnd(SubSeq(s, 1, Len(s) - 1)) ELSE s
Trim(s) == TrimEnd(TrimStart(s))

\* normalized.split('.'): every piece between the points, in order.
RECURSIVE Split(_)
Split(s) ==
    IF \A i \in 1..Len(s) : s[i] # "." THEN <<s>>
    ELSE LET i == CHOOSE j \in 1..Len(s) :
                      s[j] = "." /\ \A k \in 1..(j - 1) : s[k] # "."
         IN  <<SubSeq(s, 1, i - 1)>> \o Split(SubSeq(s, i + 1, Len(s)))

\* /^\d+$/ and /^\d*$/
MatchesDigitsPlus(s) == Len(s) > 0 /\ \A i \in 1..Len(s) : s[i] \in Digits
MatchesDigitsStar(s) == \A i \in 1..Len(s) : s[i] \in Digits

\* '0'.repeat(n) and s.slice(0, n)
Zeros(n) == [i \in 1..n |-> "0"]
Slice(s, n) == SubSeq(s, 1, Min(n, Len(s)))

\* Mutant: the fraction padded but not cut to `decimals` digits.
PaddedUncut(frac, decimals) == frac \o Zeros(decimals)

\* (frac + '0'.repeat(decimals)).slice(0, decimals)
Padded(frac, decimals) == Slice(frac \o Zeros(decimals), decimals)

\* BigInt(s) of a string of digits, and 10n ** BigInt(n)
RECURSIVE BigInt(_)
BigInt(s) ==
    IF s = <<>> THEN 0
    ELSE BigInt(SubSeq(s, 1, Len(s) - 1)) * 10 + DigitValue(s[Len(s)])
RECURSIVE Pow10(_)
Pow10(n) == IF n = 0 THEN 1 ELSE 10 * Pow10(n - 1)

Returned(v) == [ok |-> TRUE, value |-> v]
Thrown(m) == [ok |-> FALSE, error |-> m]

ToRawAmount(amount, decimals) ==
    LET normalized == Trim(amount)
    IN  IF normalized = <<>> THEN Thrown("Amount is required")
        ELSE LET parts == Split(normalized)
                 whole == parts[1]
                 frac == IF Len(parts) >= 2 THEN parts[2] ELSE <<>>
                 safeWhole == IF whole = <<>> THEN <<"0">> ELSE whole
             IN  IF ~MatchesDigitsPlus(safeWhole) \/ ~MatchesDigitsStar(frac)
                 THEN Thrown("Amount must be numeric")
                 ELSE LET padded == Padded(frac, decimals)
                      IN  Returned(BigInt(safeWhole) * Pow10(decimals)
                                   + BigInt(IF padded = <<>> THEN <<"0">> ELSE padded))

\* All strings over Alphabet of at most n characters.
RECURSIVE Strings(_)
Strings(n) ==
    IF n = 0 THEN {<<>>}
    ELSE LET shorter == Strings(n - 1)
         IN  shorter \cup {Append(t, c) : t \in shorter, c \in Alphabet}

\* The calls named in the specification's examples.
ExampleCalls ==
    {[amount |-> <<"1", ".", "2", "5">>, decimals |-> 6],
     [amount |-> <<"5">>, decimals |-> 0],
     [amount |-> <<"1", ".", "9", "9", "9">>, decimals |-> 2],
     [amount |-> <<>>, decimals |-> 6],
     [amount |-> <<"1", ".", "2", "x">>, decimals |-> 2],
     [amount |-> <<"1", ".", "2", ".", "3">>, decimals |-> 2]}

AmountCalls ==
    {[amount |-> t, decimals |-> d] : t \in Strings(MaxLen), d \in 0..MaxDecimals}
        \cup ExampleCalls

AmountInit ==
    /\ norm \in {[phase |-> "called", amount |-> c.amount, decimals |-> c.decimals] :
                    c \in AmountCalls}
    /\ dispatch = Idle /\ build = Idle /\ relay = Idle
    /\ retry = Idle /\ wallet = Idle /\ dash = Idle
    /\ EngineIdle

\* toRawAmount(amount, decimals) runs to its return or its throw.
ToRawAmountCalled ==
    /\ norm.phase = "called"
    /\ norm' = [phase |-> "finished", amount |-> norm.amount, decimals |-> norm.decimals,
                result |-> ToRawAmount(norm.amount, norm.decimals)]
    /\ UNCHANGED <<engine, dispatch, build, relay, retry, wallet, dash>>

AmountNext == ToRawAmountCalled

SpecAmount == AmountInit /\ [][AmountNext]_vars

\* ---------------------------------------------------------- buildTransferTx
\* The plans tried: with and without the optional priority fee.
BuildPlans ==
    {[destOnCurve |-> b, amountRaw |-> a] : b \in BOOLEAN, a \in 0..MaxAmount}
        \cup {[destOnCurve |-> b, amountRaw |-> a, priorityFeeMicrolamports |-> f] :
                  b \in BOOLEAN, a \in 0..MaxAmount, f \in (0 - 1)..MaxFee}

BuildInit ==
    /\ build \in {[phase |-> "called", from |-> w, plan |-> p, blockhashInfo |-> LatestBlockhash(h)] :
                     w \in Wallets, p \in BuildPlans, h \in 1..MaxBh}
    /\ dispatch = Idle /\ norm = Idle /\ relay = Idle
    /\ retry = Idle /\ wallet = Idle /\ dash = Idle
    /\ EngineIdle

\* buildTransferTx(from, plan, blockhashInfo) returns the signed transaction,
\* or throws when the destination has no associated token address.
BuildTransferTxCalled ==
    /\ build.phase = "called"
    /\ build' = [phase |-> "finished", from |-> build.from, plan |-> build.plan,
                 blockhashInfo |-> build.blockhashInfo,
                 result |-> IF build.plan.destOnCurve
                            THEN [ok |-> TRUE,
                                  tx |-> BuildTransferTx(build.from, build.plan,
                                                         build.blockhashInfo)]
                            ELSE [ok |-> FALSE]]
    /\ UNCHANGED <<engine, dispatch, norm, relay, retry, wallet, dash>>

BuildNext == BuildTransferTxCalled

SpecBuild == BuildInit /\ [][BuildNext]_vars

\* ----------------------------------------------------------- the relay server
\* An environment variable that is not set, a header that was not sent.
Absent == "(absent)"
Secret == "secret"

ApiKeys == {Absent, "", Secret}
Requests ==
    [method : {"GET", "POST", "OPTIONS"},
     path : {"/health", "/blockhash", "/sendRaw", "/balances"},
     apiKeyHeader : {Absent, "", Secret, "wrong"},
     body : {"malformed", "empty", "full"}]

\* Mutant: a request without the header is let through.
AuthPassesWithoutHeader(apiKey, presented) ==
    apiKey \in {Absent, ""} \/ presented = Absent \/ presented = apiKey

\* if (!API_KEY) return next(); if (presented !== API_KEY) return 401; next()
AuthPasses(apiKey, presented) ==
    apiKey \in {Absent, ""} \/ presented = apiKey

Answer(status, authRan, handlerRan, ledgerCalls) ==
    [status |-> status, authRan |-> authRan, handlerRan |-> handlerRan,
     ledgerCalls |-> ledgerCalls]

\* The route handlers, with the ledger's RPC succeeding (ledgerOk) or throwing.
Handler(req, ledgerOk) ==
    CASE req.method = "GET" /\ req.path = "/health" -> Answer(200, TRUE, TRUE, 0)
      [] req.method = "GET" /\ req.path = "/blockhash" ->
            Answer(IF ledgerOk THEN 200 ELSE 500, TRUE, TRUE, 1)
      [] req.method = "POST" /\ req.path = "/sendRaw" ->
            IF req.body = "empty" THEN Answer(400, TRUE, TRUE, 0)
            ELSE IF ledgerOk THEN Answer(200, TRUE, TRUE, 2)
            ELSE Answer(500, TRUE, TRUE, 1)
      [] req.method = "POST" /\ req.path = "/balances" ->
            IF req.body = "empty" THEN Answer(400, TRUE, TRUE, 0)
            ELSE Answer(IF ledgerOk THEN 200 ELSE 500, TRUE, TRUE, 1)
      [] OTHER -> Answer(404, TRUE, FALSE, 0)

\* The middleware chain in the order of the app.use calls: cors answers a
\* preflight itself, express.json refuses a body it cannot parse, then the
\* key check, then the routes.
Serve(apiKey, req, ledgerOk) ==
    IF req.method = "OPTIONS" THEN Answer(204, FALSE, FALSE, 0)
    ELSE IF req.body = "malformed" THEN Answer(400, FALSE, FALSE, 0)
    ELSE IF ~AuthPasses(apiKey, req.apiKeyHeader) THEN Answer(401, TRUE, FALSE, 0)
    ELSE Handler(req, ledgerOk)

RelayInit ==
    /\ relay \in {[phase |-> "received", apiKey |-> k, request |-> r] :
                     k \in ApiKeys, r \in Requests}
    /\ dispatch = Idle /\ norm = Idle /\ build = Idle
    /\ retry = Idle /\ wallet = Idle /\ dash = Idle
    /\ EngineIdle

\* The server handles the request to its answer.
RelayHandles(ledgerOk) ==
    /\ relay.phase = "received"
    /\ relay' = [phase |-> "answered", apiKey |-> relay.apiKey, request |-> relay.request,
                 answer |-> Serve(relay.apiKey, relay.request, ledgerOk)]
    /\ UNCHANGED <<engine, dispatch, norm, build, retry, wallet, dash>>

RelayNext == \E ledgerOk \in BOOLEAN : RelayHandles(ledgerOk)

SpecRelay == RelayInit /\ [][RelayNext]_vars

\* ------------------------------------------- sendWithRetry called on its own
\* maxRetries is a JavaScript number: it is kept here in half units, so that
\* maxRetries2 = 3 stands for maxRetries = 1.5.
RetryArgs == (0 - 2)..MaxRetriesArg2
RetryMessages == {MsgStale, MsgNetwork}

\* attempt <= maxRetries, the test of the for loop
LoopRuns(a, maxRetries2) == 2 * a <= maxRetries2

\* attempt === maxRetries
AttemptIsMax(a, maxRetries2) == 2 * a = maxRetries2

\* The loop test with attempt = a: the next POST, or the return after the loop.
EnterLoop(r, a) ==
    IF LoopRuns(a, r.maxRetries2)
    THEN [r EXCEPT !.phase = "posting", !.attempt = a, !.posts = @ + 1]
    ELSE [r EXCEPT !.phase = "returned", !.attempt = a,
                   !.result = Failed(1, "exhausted retries")]

\* if (attempt === maxRetries) return { wallet, error: msg }; else the backoff.
AfterCatch(r) ==
    IF AttemptIsMax(r.attempt, r.maxRetries2)
    THEN [r EXCEPT !.phase = "returned", !.result = Failed(1, r.errors[Len(r.errors)])]
    ELSE [r EXCEPT !.phase = "backoff"]

RetryInit ==
    /\ retry \in {[phase |-> "called", maxRetries2 |-> m, attempt |-> 0, posts |-> 0,
                    errors |-> <<>>, result |-> NoOutcome] : m \in RetryArgs}
    /\ dispatch = Idle /\ norm = Idle /\ build = Idle /\ relay = Idle
    /\ wallet = Idle /\ dash = Idle
    /\ EngineIdle

\* sendWithRetry(tx, name, signer, apiBase, apiKey, getBlockhash, maxRetries)
RetryCalled ==
    /\ retry.phase = "called"
    /\ retry' = EnterLoop(retry, 1)
    /\ UNCHANGED <<engine, dispatch, norm, build, relay, wallet, dash>>

RetryAccepted ==
    /\ retry.phase = "posting"
    /\ retry' = [retry EXCEPT !.phase = "returned",
                               !.result = Confirmed(1, <<"sig", 1, retry.attempt>>)]
    /\ UNCHANGED <<engine, dispatch, norm, build, relay, wallet, dash>>

RetryFailed(m) ==
    /\ retry.phase = "posting"
    /\ LET caught == [retry EXCEPT !.errors = Append(@, m)]
       IN  retry' = IF NeedsHash(m) THEN [caught EXCEPT !.phase = "refreshing"]
                    ELSE AfterCatch(caught)
    /\ UNCHANGED <<engine, dispatch, norm, build, relay, wallet, dash>>

\* await getBlockhash() returns (ok) or throws out of the catch block.
RetryRefreshed(ok) ==
    /\ retry.phase = "refreshing"
    /\ retry' = IF ok THEN AfterCatch(retry) ELSE [retry EXCEPT !.phase = "thrown"]
    /\ UNCHANGED <<engine, dispatch, norm, build, relay, wallet, dash>>

RetryBackoffElapsed ==
    /\ retry.phase = "backoff"
    /\ retry' = EnterLoop(retry, retry.attempt + 1)
    /\ UNCHANGED <<engine, dispatch, norm, build, relay, wallet, dash>>

RetryNext ==
    \/ RetryCalled
    \/ RetryAccepted
    \/ \E m \in RetryMessages : RetryFailed(m)
    \/ \E ok \in BOOLEAN : RetryRefreshed(ok)
    \/ RetryBackoffElapsed

SpecRetry == RetryInit /\ [][RetryNext]_vars

\* --------------------------------------------------------- parseWalletBatch
\* The text is a sequence of tokens. "K" is the base58 text of a 64-byte key
\* pair, "J" the JSON array of one, "X" the base58 text of 64 bytes that are
\* not a key pair, "a" one base58 letter (one byte).
LF == "LF"
CR == "CR"
Ws == {" ", CR, LF}
WalletAlphabet == {LF, CR, " ", ":", "a", "K", "X", "J"}
WalletLimit == 30

\* line.trim(), input.trim()
RECURSIVE TrimWsStart(_)
TrimWsStart(s) == IF s # <<>> /\ Head(s) \in Ws THEN TrimWsStart(Tail(s)) ELSE s
RECURSIVE TrimWsEnd(_)
TrimWsEnd(s) ==
    IF s # <<>> /\ s[Len(s)] \in Ws THEN TrimWsEnd(SubSeq(s, 1, Len(s) - 1)) ELSE s
TrimWs(s) == TrimWsEnd(TrimWsStart(s))

\* raw.split(/\r?\n/)
RECURSIVE SplitLines(_)
SplitLines(s) ==
    IF \A i \in 1..Len(s) : s[i] # LF THEN <<s>>
    ELSE LET i == CHOOSE j \in 1..Len(s) : s[j] = LF /\ \A k \in 1..(j - 1) : s[k] # LF
             e == IF i > 1 /\ s[i - 1] = CR THEN i - 2 ELSE i - 1
         IN  <<SubSeq(s, 1, e)>> \o SplitLines(SubSeq(s, i + 1, Len(s)))

\* .map((line) => line.trim()).filter(Boolean)
RECURSIVE TrimmedNonEmpty(_)
TrimmedNonEmpty(ls) ==
    IF ls = <<>> THEN <<>>
    ELSE LET t == TrimWs(Head(ls))
         IN  (IF t = <<>> THEN <<>> ELSE <<t>>) \o TrimmedNonEmpty(Tail(ls))

Includes(s, c) == \E i \in 1..Len(s) : s[i] = c
IndexOf(s, c) == CHOOSE i \in 1..Len(s) : s[i] = c /\ \A k \in 1..(i - 1) : s[k] # c

DigitChar(d) == CHOOSE c \in Digits : DigitValue(c) = d
RECURSIVE Decimal(_)
Decimal(n) == IF n < 10 THEN <<DigitChar(n)>> ELSE Decimal(n \div 10) \o <<DigitChar(n % 10)>>

\* `wallet-${idx + 1}`, idx counted from 0
DefaultName(idx) == <<"wallet-">> \o Decimal(idx + 1)

\* JSON.parse(trimmed) gives a non-empty array
IsJsonArray(t) == t = <<"J">>
\* bs58.decode(trimmed) does not throw
IsBase58(t) == \A i \in 1..Len(t) : t[i] \in {"a", "K", "X"}
RECURSIVE Bytes(_)
Bytes(t) ==
    IF t = <<>> THEN 0
    ELSE (IF Head(t) = "a" THEN 1 ELSE 64) + Bytes(Tail(t))

ParseSecretKey(input) ==
    LET trimmed == TrimWs(input)
    IN  IF trimmed = <<>> THEN Thrown("Empty secret key input")
        ELSE IF IsJsonArray(trimmed) THEN Returned([text |-> trimmed, length |-> 64])
        ELSE IF IsBase58(trimmed)
             THEN Returned([text |-> trimmed, length |-> Bytes(trimmed)])
        ELSE Thrown("Secret key must be JSON array or base58-encoded")

\* Keypair.fromSecretKey(secret) accepts the bytes
IsKeypair(secret) == secret.text \in {<<"K">>, <<"J">>}

\* The callback of lines.map for one line
ParseLine(line, idx) ==
    LET hasColon == Includes(line, ":")
        maybeName == IF hasColon THEN SubSeq(line, 1, IndexOf(line, ":") - 1) ELSE <<>>
        maybeKey == IF hasColon THEN SubSeq(line, IndexOf(line, ":") + 1, Len(line))
                    ELSE line
        name == TrimWs(IF maybeName # <<>> THEN maybeName ELSE DefaultName(idx))
        secret == ParseSecretKey(IF maybeKey # <<>> THEN maybeKey ELSE line)
    IN  IF ~secret.ok THEN secret
        ELSE IF secret.value.length # 64 THEN Thrown("secret key must be 64 bytes")
        ELSE IF ~IsKeypair(secret.value) THEN Thrown("provided secretKey is invalid")
        ELSE Returned([name |-> name, secret |-> secret.value])

\* lines.map(...): the first line that throws ends the call
RECURSIVE MapLines(_, _)
MapLines(lines, idx) ==
    IF idx >= Len(lines) THEN Returned(<<>>)
    ELSE LET one == ParseLine(lines[idx + 1], idx)
         IN  IF ~one.ok THEN one
             ELSE LET rest == MapLines(lines, idx + 1)
                  IN  IF ~rest.ok THEN rest ELSE Returned(<<one.value>> \o rest.value)

\* Mutant: the limit is not applied.
TooManyNever(lines) == FALSE

\* lines.length > 30
TooMany(lines) == Len(lines) > WalletLimit

ParseWalletBatch(raw) ==
    LET lines == TrimmedNonEmpty(SplitLines(raw))
    IN  IF lines = <<>> THEN Returned(<<>>)
        ELSE IF TooMany(lines) THEN Thrown("Provide at most 30 wallets")
        ELSE MapLines(lines, 0)

RECURSIVE Texts(_)
Texts(n) ==
    IF n = 0 THEN {<<>>}
    ELSE LET shorter == Texts(n - 1)
         IN  shorter \cup {Append(t, c) : t \in {u \in shorter : Len(u) = n - 1},
                                          c \in WalletAlphabet}

RECURSIVE Repeated(_, _, _)
Repeated(line, sep, n) ==
    IF n = 1 THEN line ELSE Repeated(line, sep, n - 1) \o sep \o line

\* Texts of about thirty wallets, with and without blank lines between them.
LongTexts ==
    {Repeated(line, sep, n) :
        line \in {<<"K">>, <<"a", ":", "J">>, <<"X">>},
        sep \in {<<LF>>, <<CR, LF>>, <<LF, " ", LF>>},
        n \in (WalletLimit - 1)..MaxLines}

WalletInit ==
    /\ wallet \in {[phase |-> "called", raw |-> t] : t \in Texts(MaxText) \cup LongTexts}
    /\ dispatch = Idle /\ norm = Idle /\ build = Idle /\ relay = Idle
    /\ retry = Idle /\ dash = Idle
    /\ EngineIdle

ParseWalletBatchCalled ==
    /\ wallet.phase = "called"
    /\ wallet' = [phase |-> "settled", raw |-> wallet.raw,
                  result |-> ParseWalletBatch(wallet.raw)]
    /\ UNCHANGED <<engine, dispatch, norm, build, relay, retry, dash>>

WalletNext == ParseWalletBatchCalled

SpecWallets == WalletInit /\ [][WalletNext]_vars

\* ------------------------------------------------------------ the dashboard
\* A wallet is written by its name `bundle-${Date.now()}-${idx + 1}`.
Max(a, b) == IF a > b THEN a ELSE b
Range(s) == {s[i] : i \in 1..Len(s)}
Bundle(t, n) == [i \in 1..n |-> [at |-> t, idx |-> i]]

\* Mutant: the wallets in the order they were checked.
SelectedWalletsAsChecked(wallets, selected) ==
    IF Len(selected) # 0 THEN selected ELSE wallets

\* selected.length ? wallets.filter((w) => selected.includes(w.name)) : wallets
SelectedWallets(wallets, selected) ==
    IF Len(selected) # 0
    THEN SelectSeq(wallets, LAMBDA w : Includes(selected, w))
    ELSE wallets

\* [...prev.filter((p) => p.wallet !== res.wallet), res]
WithResult(results, res) ==
    Append(SelectSeq(results, LAMBDA p : p.wallet # res.wallet), res)

NoError == "(none)"

DashInit ==
    /\ dash = [phase |-> "ready", now |-> 1, wallets |-> <<>>, selected |-> <<>>,
               isRunning |-> FALSE, results |-> <<>>, error |-> NoError,
               batches |-> <<>>, calls |-> 0]
    /\ dispatch = Idle /\ norm = Idle /\ build = Idle /\ relay = Idle
    /\ retry = Idle /\ wallet = Idle
    /\ EngineIdle

HandleGenerateWallets(generateCount, t) ==
    /\ t >= dash.now
    /\ LET count == Max(1, Min(MAX_WALLETS, generateCount))
           generated == Bundle(t, count)
       IN  dash' = [dash EXCEPT !.now = t, !.wallets = generated,
                                !.selected = generated, !.error = NoError]
    /\ UNCHANGED <<engine, dispatch, norm, build, relay, retry, wallet>>

ToggleWallet(name) ==
    /\ name \in Range(dash.wallets)
    /\ dash' = [dash EXCEPT !.selected =
                    IF Includes(@, name) THEN SelectSeq(@, LAMBDA n : n # name)
                    ELSE Append(@, name)]
    /\ UNCHANGED <<engine, dispatch, norm, build, relay, retry, wallet>>

SelectAll ==
    /\ Len(dash.wallets) > 0
    /\ dash' = [dash EXCEPT !.selected = dash.wallets]
    /\ UNCHANGED <<engine, dispatch, norm, build, relay, retry, wallet>>

\* handleExecute up to the call of executeBatch. form tells whether mint
\* and destination are filled in, and whether they and the amount parse.
HandleExecuteClicked(form) ==
    /\ ~dash.isRunning
    /\ Len(dash.batches) < MaxBatches
    /\ LET signers == SelectedWallets(dash.wallets, dash.selected)
           cleared == [dash EXCEPT !.results = <<>>]
       IN  dash' =
             IF form = "missing"
             THEN [cleared EXCEPT !.error = "Mint and destination are required"]
             ELSE IF Len(signers) = 0
             THEN [cleared EXCEPT !.error = "Select at least one wallet"]
             ELSE IF form = "invalid"
             THEN [cleared EXCEPT !.error = "Invalid public key input"]
             ELSE [cleared EXCEPT
                     !.error = NoError,
                     !.isRunning = TRUE,
                     !.batches = Append(@, [signers |-> signers, phase |-> "fetching",
                                            runs |-> [i \in 1..Len(signers) |-> "waiting"]])]
    /\ UNCHANGED <<engine, dispatch, norm, build, relay, retry, wallet>>

\* cachedBh = await nextBh() of batch b: the tasks are made, or the call rejects
\* and handleExecute goes through catch and finally.
DashBlockhash(b, ok) ==
    /\ b \in 1..Len(dash.batches)
    /\ dash.batches[b].phase = "fetching"
    /\ dash' =
         IF ok
         THEN [dash EXCEPT !.batches[b].phase = "running",
                           !.batches[b].runs = [i \in DOMAIN @ |-> "running"]]
         ELSE [dash EXCEPT !.batches[b].phase = "rejected",
                           !.error = "Blockhash fetch failed",
                           !.isRunning = FALSE]
    /\ UNCHANGED <<engine, dispatch, norm, build, relay, retry, wallet>>

\* Run i of batch b ends: sendWithRetry returns and onResult is called, or it
\* throws. Promise.all settles once; the other tasks go on after a rejection.
DashRunSettles(b, i, kind) ==
    /\ b \in 1..Len(dash.batches)
    /\ dash.batches[b].phase \in {"running", "rejected"}
    /\ i \in DOMAIN dash.batches[b].runs
    /\ dash.batches[b].runs[i] = "running"
    /\ LET bt == dash.batches[b]
           pending == bt.phase = "running"
           last == \A j \in DOMAIN bt.runs : j # i => bt.runs[j] = "done"
       IN  dash' =
             IF kind = "thrown"
             THEN [dash EXCEPT
                     !.batches[b].runs[i] = "thrown",
                     !.batches[b].phase = "rejected",
                     !.error = IF pending THEN "Blockhash fetch failed" ELSE @,
                     !.isRunning = IF pending THEN FALSE ELSE @]
             ELSE [dash EXCEPT
                     !.batches[b].runs[i] = "done",
                     !.batches[b].phase = IF pending /\ last THEN "resolved" ELSE @,
                     !.results = WithResult(@, [wallet |-> bt.signers[i], batch |-> b,
                                                kind |-> kind]),
                     !.calls = @ + 1,
                     !.isRunning = IF pending /\ last THEN FALSE ELSE @]
    /\ UNCHANGED <<engine, dispatch, norm, build, relay, retry, wallet>>

DashNext ==
    \/ \E g \in 0..MaxGenerate, t \in 1..MaxNow : HandleGenerateWallets(g, t)
    \/ \E t \in 1..MaxNow, i \in 1..MaxGenerate : ToggleWallet([at |-> t, idx |-> i])
    \/ SelectAll
    \/ \E form \in {"missing", "invalid", "valid"} : HandleExecuteClicked(form)
    \/ \E b \in 1..MaxBatches, ok \in BOOLEAN : DashBlockhash(b, ok)
    \/ \E b \in 1..MaxBatches, i \in 1..MaxGenerate,
          kind \in {"signature", "error", "thrown"} : DashRunSettles(b, i, kind)

SpecDash == DashInit /\ [][DashNext]_vars

\* The steps of executeBatch before its tasks exist, and the steps of w's run.
BatchStep == InitialBlockhashFails \/ InitialBlockhash
RunStep(w) ==
    \/ SendAccepted(w)
    \/ SendAcceptedNoSignature(w)
    \/ \E m \in ErrorMessages : SendFailed(w, m)
    \/ \E ok \in BOOLEAN : RelayBlockhash(w, ok)
    \/ BlockhashDelivered(w)
    \/ BlockhashFailed(w)
    \/ BackoffElapsed(w)

\* Every timer the engine sets fires; a fetch settles only if the relay or the
\* network answers it, which nothing in the engine brings about.
TimerFairSpec ==
    /\ Spec
    /\ \A w \in Wallets : WF_vars(BackoffElapsed(w))

\* Every fetch the engine awaits settles and every timer it sets fires.
FairSpec ==
    /\ Spec
    /\ WF_vars(BatchStep)
    /\ \A w \in Wallets : WF_vars(RunStep(w))

\* =================================================================== claims
\* Runs that hold a p-limit slot: building, submitting, refreshing or backing off.
ActiveRuns == {w \in Wallets : pc[w] \in {"submitting", "refreshing", "backoff"}}
TerminalRuns == {w \in Wallets : pc[w] \in {"done", "thrown"}}
StartedRuns == {w \in Wallets : pc[w] \notin {"new", "queued"}}

IsFailure(r) == ~r.ok
IsStale(r) == ~r.ok /\ r.error = MsgStale
\* Staleness failures among the first i responses to wallet w.
StaleCount(w, i) == Cardinality({j \in 1..i : IsStale(observed[w][j])})

\* C1: once executeBatch has settled, it has returned exactly one outcome per
\* input wallet name: N outcomes, no name duplicated, no name omitted.
C1_OneOutcomePerSigner ==
    batch \in {"resolved", "rejected"} =>
        /\ Len(returned) = NumWallets
        /\ \A w \in Wallets :
              Cardinality({i \in 1..Len(returned) : returned[i].wallet = w}) = 1

\* C2: executeBatch's promise is never rejected, whatever the relay answers.
C2_NeverRejected == batch # "rejected"

\* C3: when the hash refresh a run requested after a staleness error fails, the
\* run ends with an error outcome for its wallet (sendWithRetry returns, it does
\* not throw).
C3_RefreshFailureIsOutcome ==
    [][\A w \in Wallets :
         (pc[w] = "refreshing" /\ bhResp[w].status = "failed" /\ pc'[w] # "refreshing")
            => (pc'[w] = "done" /\ "error" \in DOMAIN outcome'[w])]_vars

\* C4: with 1 <= C < N, at most C runs are active in any state, and the runs
\* started so far exceed C only by the number of runs that have ended.
C4_AtMostCActive ==
    (1 <= concurrency /\ concurrency < NumWallets) =>
        /\ Cardinality(ActiveRuns) <= concurrency
        /\ Cardinality(StartedRuns) <= concurrency + Cardinality(TerminalRuns)

\* Concurrency 1: wallet 1 waits out its first backoff while wallet 2 is still queued.
C4_Witness ==
    /\ concurrency = 1
    /\ pc[1] = "backoff"
    /\ attempt[1] = 2
    /\ pc[2] = "queued"

\* What wallet w's run must have returned, read from the responses to w alone.
OwnOutcome(w) ==
    LET r == observed[w][Len(observed[w])]
    IN  IF r.ok THEN [wallet |-> w, signature |-> r.signature]
        ELSE [wallet |-> w, error |-> r.error]

\* The outcome, the number of submissions and the end of w's run follow from
\* the relay's answers to w alone; a run is never ended by another run.
RunFollowsOwnResponses(w) ==
    /\ pc[w] = "done" =>
          /\ Len(observed[w]) >= 1
          /\ Len(sent[w]) = Len(observed[w])
          /\ \A i \in 1..(Len(observed[w]) - 1) : IsFailure(observed[w][i])
          /\ observed[w][Len(observed[w])].ok \/ Len(observed[w]) = MaxRetries
          /\ outcome[w] = OwnOutcome(w)
    /\ pc[w] = "thrown" =>
          \/ ~plan.destOnCurve
          \/ /\ Len(observed[w]) >= 1
             /\ IsStale(observed[w][Len(observed[w])])
             /\ StaleCount(w, Len(observed[w])) = Len(fetched[w]) + 1

\* Submission i of w is bound to the hash of w's own latest refresh, or, before
\* any refresh of its own, to `first`.
BoundToOwnHash(w, i, first) ==
    LET k == StaleCount(w, i - 1)
    IN  IF k = 0 THEN sent[w][i].blockhash = first
        ELSE /\ k <= Len(fetched[w])
             /\ sent[w][i].blockhash = fetched[w][k].blockhash

C6_AtMostMaxRetriesSubmissions ==
    \A w \in Wallets : Len(sent[w]) <= MaxRetries

\* A run that used all its attempts on a staleness, a network and a 401 failure.
C6_Witness ==
    \E w \in Wallets :
        /\ pc[w] = "done"
        /\ Len(sent[w]) = MaxRetries
        /\ Len(observed[w]) = MaxRetries
        /\ observed[w][1] = [ok |-> FALSE, error |-> MsgStale]
        /\ observed[w][2] = [ok |-> FALSE, error |-> MsgNetwork]
        /\ observed[w][3] = [ok |-> FALSE, error |-> MsgUnauthorized]

\* C7: a run whose maxRetries attempts all failed with a non-staleness failure
\* has ended Failed, and its error is the message of the last failure.
C7_ErrorIsLastFailure ==
    \A w \in Wallets :
        (/\ Len(observed[w]) = MaxRetries
         /\ \A i \in 1..MaxRetries :
               IsFailure(observed[w][i]) /\ ~IsStale(observed[w][i]))
        => /\ pc[w] = "done"
           /\ outcome[w] = [wallet |-> w, error |-> observed[w][MaxRetries].error]

\* Three non-staleness failures, the last with a message of its own.
C7_Witness ==
    \E w \in Wallets :
        /\ pc[w] = "done"
        /\ Len(observed[w]) = MaxRetries
        /\ observed[w][1] = [ok |-> FALSE, error |-> MsgNetwork]
        /\ observed[w][2] = [ok |-> FALSE, error |-> MsgNetwork]
        /\ observed[w][3] = [ok |-> FALSE, error |-> MsgUnauthorized]

\* Wallet w got a staleness error on attempt 1 and a signature on attempt 2.
StaleThenAccepted(w) ==
    /\ Len(observed[w]) = 2
    /\ IsStale(observed[w][1])
    /\ observed[w][2].ok
    /\ observed[w][2].signature # Undefined

\* C8: a run that gets a staleness error on attempt 1 and a signature on
\* attempt 2 ends Confirmed with that signature, and the hash bound in attempt 2
\* differs from the one bound in attempt 1.
C8_SecondHashDiffers ==
    \A w \in Wallets :
        StaleThenAccepted(w) =>
            /\ pc[w] = "done"
            /\ outcome[w] = [wallet |-> w, signature |-> observed[w][2].signature]
            /\ sent[w][2].blockhash # sent[w][1].blockhash

\* C8 as amended: such a run ends Confirmed with that signature, and the
\* transaction of attempt 2 is bound to, and signed over, the BlockhashInfo the
\* run's refresh after attempt 1 returned (a hash that differs from attempt 1's
\* exactly when the relay's /blockhash answer carried a new one).
C8_SecondHashIsRefreshed ==
    \A w \in Wallets :
        StaleThenAccepted(w) =>
            /\ pc[w] = "done"
            /\ outcome[w] = [wallet |-> w, signature |-> observed[w][2].signature]
            /\ Len(fetched[w]) = 1
            /\ sent[w][2].blockhash = fetched[w][1].blockhash
            /\ sent[w][2].lastValidBlockHeight = fetched[w][1].lastValidBlockHeight
            /\ sent[w][2].tx.recentBlockhash = fetched[w][1].blockhash
            /\ sent[w][2].tx.signedOver = fetched[w][1].blockhash
            /\ observed[w][2].signature = <<"sig", w, fetched[w][1].blockhash>>

\* Stale on attempt 1, accepted on attempt 2 under a new hash.
C8_Witness ==
    \E w \in Wallets :
        /\ StaleThenAccepted(w)
        /\ "signature" \in DOMAIN outcome[w]
        /\ sent[w][2].blockhash # sent[w][1].blockhash

\* Attempts of w that are not the last, were answered with a staleness error
\* and were followed by another submission.
StaleRetried(w) ==
    {i \in 1..(Len(sent[w]) - 1) : i < MaxRetries /\ IsStale(observed[w][i])}

\* C9: after a staleness error on an attempt that is not the last, the run
\* fetches a fresh hash, rebinds and re-signs the same transfer with the same
\* signer, and only then submits; the next submission never carries the hash
\* of the attempt that was reported stale.
C9_NeverReusesStaleHash ==
    \A w \in Wallets :
        /\ pc[w] = "backoff" => Len(fetched[w]) = StaleCount(w, Len(observed[w]))
        /\ \A i \in StaleRetried(w) :
              /\ sent[w][i + 1].tx.signedBy = w
              /\ sent[w][i + 1].tx.feePayer = w
              /\ sent[w][i + 1].tx.transfer = sent[w][i].tx.transfer
              /\ sent[w][i + 1].tx.signedOver = sent[w][i + 1].blockhash
              /\ sent[w][i + 1].blockhash # sent[w][i].blockhash

\* C9 as amended: ... and only then submits; the next submission carries, and
\* is signed over, the hash and expiry height that this refresh returned
\* (whether or not the relay returned a hash other than the stale one).
C9_ResubmitsRefreshedHash ==
    \A w \in Wallets :
        /\ pc[w] = "backoff" => Len(fetched[w]) = StaleCount(w, Len(observed[w]))
        /\ \A i \in StaleRetried(w) :
              /\ sent[w][i + 1].tx.signedBy = w
              /\ sent[w][i + 1].tx.feePayer = w
              /\ sent[w][i + 1].tx.transfer = sent[w][i].tx.transfer
              /\ sent[w][i + 1].tx.signedOver = sent[w][i + 1].blockhash
              /\ StaleCount(w, i) <= Len(fetched[w])
              /\ sent[w][i + 1].blockhash = fetched[w][StaleCount(w, i)].blockhash
              /\ sent[w][i + 1].tx.recentBlockhash = fetched[w][StaleCount(w, i)].blockhash
              /\ sent[w][i + 1].lastValidBlockHeight =
                     fetched[w][StaleCount(w, i)].lastValidBlockHeight

\* Stale on attempt 2 of 3: the third submission carries the refreshed hash.
C9_Witness ==
    \E w \in Wallets :
        /\ Len(sent[w]) = MaxRetries
        /\ observed[w][1] = [ok |-> FALSE, error |-> MsgNetwork]
        /\ IsStale(observed[w][2])
        /\ Len(fetched[w]) = 1
        /\ sent[w][3].blockhash = fetched[w][1].blockhash
        /\ sent[w][3].blockhash # sent[w][2].blockhash

\* C10: after a 401 answer to a submission the run submits nothing more: it
\* has ended Failed with the authentication failure as its error.
C10_UnauthorizedNotRetried ==
    \A w \in Wallets :
        \A i \in 1..Len(observed[w]) :
            (IsFailure(observed[w][i]) /\ observed[w][i].error = MsgUnauthorized)
            => /\ Len(sent[w]) = i
               /\ pc[w] = "done"
               /\ outcome[w] = [wallet |-> w, error |-> MsgUnauthorized]

\* A field of an outcome is set when it is there and holds a non-empty value.
HasSignature(o) == "signature" \in DOMAIN o /\ o.signature # Undefined
HasError(o) == "error" \in DOMAIN o /\ o.error # ""

\* C11: every outcome sendWithRetry returns has exactly one of signature and
\* error set: the signature iff the relay's last answer was a 2xx, the error
\* iff it was a failure, whatever the relay answered.
C11_ExactlyOneOfSignatureError ==
    \A w \in Wallets :
        (pc[w] = "done" /\ Len(observed[w]) > 0)
        => LET o == outcome[w]
               last == observed[w][Len(observed[w])]
           IN  /\ HasSignature(o) # HasError(o)
               /\ HasSignature(o) <=> last.ok
               /\ HasError(o) <=> ~last.ok

\* The positions of w's outcome in the sequence of onResult calls.
Emissions(w) == {i \in 1..Len(emitted) : emitted[i].wallet = w}

\* C12: onResult is called exactly once for every wallet, with its outcome, in
\* the step in which its run becomes terminal (so before later runs end and
\* before executeBatch resolves), and the outcome passed is the one returned
\* for that wallet.
C12_ObservedOnceAtTerminal ==
    \A w \in Wallets :
        /\ w \in TerminalRuns => Cardinality(Emissions(w)) = 1
        /\ w \notin TerminalRuns => Emissions(w) = {}
        /\ \A i \in Emissions(w) :
              /\ emitted[i] = outcome[w]
              /\ batch = "resolved" => returned[w] = emitted[i]
        /\ batch \in {"resolved", "rejected"} => w \in TerminalRuns

RunStarts(w) == pc[w] \in {"new", "queued"} /\ pc'[w] = "submitting"

C15_EventuallyResolved ==
    /\ <>(batch = "resolved" /\ \A w \in Wallets : pc[w] = "done")
    /\ [](batch = "resolved" => \A w \in Wallets : pc[w] = "done")

C14_ClampedTo30 ==
    dispatch.phase = "running"
    => /\ dispatch.limit \in 1..MAX_WALLETS
       /\ dispatch.active <= MAX_WALLETS
       /\ dispatch.active >= 1

\* A decimal string: not empty, digits only, with at most one decimal point.
Points(t) == {i \in 1..Len(t) : t[i] = "."}
IsDecimalString(t) ==
    /\ t # <<>>
    /\ \A i \in 1..Len(t) : t[i] \in Digits \cup {"."}
    /\ Cardinality(Points(t)) <= 1

\* The digits before and after the point of a decimal string, as numbers.
PointAt(t) == IF Points(t) = {} THEN Len(t) + 1 ELSE CHOOSE i \in Points(t) : TRUE
DigitsValue(t, from, to) ==
    LET val[i \in (from - 1)..to] ==
            IF i < from THEN 0 ELSE val[i - 1] * 10 + DigitValue(t[i])
    IN  IF to < from THEN 0 ELSE val[to]
IntegerPart(t) == DigitsValue(t, 1, PointAt(t) - 1)
FractionDigits(t) == IF Points(t) = {} THEN 0 ELSE Len(t) - PointAt(t)
FractionPart(t) == DigitsValue(t, PointAt(t) + 1, Len(t))

\* integerPart * 10^d plus the fraction scaled to d digits, cut, not rounded.
ExpectedRaw(t, d) ==
    IntegerPart(t) * Pow10(d) + (FractionPart(t) * Pow10(d)) \div Pow10(FractionDigits(t))

Is(call, amount, decimals) == call.amount = amount /\ call.decimals = decimals

\* C17: for every decimal string s (surrounding blanks aside) and d >= 0,
\* toRawAmount(s, d) returns integerPart * 10^d + the fraction padded with
\* zeros to d digits and cut when longer, a non-negative integer; an empty
\* integer part counts as zero.
C17_ValueOfDecimalString ==
    (norm.phase = "finished" /\ IsDecimalString(Trim(norm.amount)))
    => /\ norm.result.ok
       /\ norm.result.value = ExpectedRaw(Trim(norm.amount), norm.decimals)
       /\ norm.result.value >= 0
       /\ Is(norm, <<"1", ".", "2", "5">>, 6) => norm.result.value = 1250000
       /\ Is(norm, <<"5">>, 0) => norm.result.value = 5
       /\ Is(norm, <<"1", ".", "9", "9", "9">>, 2) => norm.result.value = 199

\* toRawAmount("1.999", 2) has returned 199: the third fraction digit is cut.
C17_Witness ==
    /\ norm.phase = "finished"
    /\ Is(norm, <<"1", ".", "9", "9", "9">>, 2)
    /\ norm.result = [ok |-> TRUE, value |-> 199]

\* C18: toRawAmount throws, and returns no amount, for every input that is
\* empty after trimming or holds anything but digits and at most one point.
C18_RejectsNonDecimal ==
    (norm.phase = "finished" /\ ~IsDecimalString(Trim(norm.amount)))
    => /\ ~norm.result.ok
       /\ norm.result.error \in {"Amount is required", "Amount must be numeric"}

\* The accounts that must sign a transaction: its fee payer, the payer of an
\* account creation and the owner of a transfer's source.
RequiredSigners(t) ==
    {t.feePayer}
        \cup {t.instructions[i].payer : i \in {j \in 1..Len(t.instructions) :
                  t.instructions[j].kind = "createAssociatedTokenAccountIdempotent"}}
        \cup {t.instructions[i].owner : i \in {j \in 1..Len(t.instructions) :
                  t.instructions[j].kind = "transfer"}}

\* The plan of the call at hand asks for a priority fee above zero.
FeeAsked ==
    IF "priorityFeeMicrolamports" \in DOMAIN build.plan
    THEN build.plan.priorityFeeMicrolamports >= 1 ELSE FALSE

\* C19: the transaction buildTransferTx returns holds, in this order, the
\* priority fee instruction (only when the fee is above zero), the 200000
\* unit compute limit, the idempotent creation of the destination's token
\* account and the transfer of amountRaw from the signer's token account to
\* the destination's; the signer pays the fee and is the only signer, and
\* the transaction carries the given blockhash.
C19_InstructionOrder ==
    (build.phase = "finished" /\ build.result.ok)
    => LET t == build.result.tx
           from == build.from
           rest == IF FeeAsked THEN Tail(t.instructions) ELSE t.instructions
       IN  /\ Len(t.instructions) = IF FeeAsked THEN 4 ELSE 3
           /\ FeeAsked =>
                 t.instructions[1] = [kind |-> "setComputeUnitPrice",
                                      microLamports |-> build.plan.priorityFeeMicrolamports]
           /\ Len(rest) = 3
           /\ rest[1] = [kind |-> "setComputeUnitLimit", units |-> 200000]
           /\ rest[2] = [kind |-> "createAssociatedTokenAccountIdempotent", payer |-> from,
                         ata |-> <<"ata", "destination">>, owner |-> "destination"]
           /\ rest[3] = [kind |-> "transfer", source |-> <<"ata", from>>,
                         destination |-> <<"ata", "destination">>, owner |-> from,
                         amount |-> build.plan.amountRaw]
           /\ t.feePayer = from
           /\ RequiredSigners(t) = {from}
           /\ t.signedBy = from
           /\ t.recentBlockhash = build.blockhashInfo.blockhash
           /\ t.lastValidBlockHeight = build.blockhashInfo.lastValidBlockHeight
           /\ t.signedOver = build.blockhashInfo.blockhash

\* A transaction built with a priority fee of 2: four instructions, the fee first.
C19_Witness ==
    /\ build.phase = "finished"
    /\ build.result.ok
    /\ FeeAsked
    /\ Len(build.result.tx.instructions) = 4
    /\ build.result.tx.instructions[1].kind = "setComputeUnitPrice"
    /\ build.result.tx.instructions[4].amount = build.plan.amountRaw

\* The relay has a key and the request at hand does not present it.
KeyMissing ==
    /\ relay.apiKey \notin {"(absent)", ""}
    /\ relay.request.apiKeyHeader # relay.apiKey

\* C20: with a key configured, every request to any endpoint whose x-api-key
\* header is absent or different is answered 401, no handler runs and no
\* ledger call is made; with no key configured every request passes the check.
C20_Unauthorized401 ==
    relay.phase = "answered"
    => /\ KeyMissing =>
             /\ relay.answer.status = 401
             /\ ~relay.answer.handlerRan
             /\ relay.answer.ledgerCalls = 0
       /\ relay.apiKey \in {"(absent)", ""} => relay.answer.status # 401

\* The request reached the key check: it is no CORS preflight and its body,
\* if any, was parsed.
ReachesKeyCheck == relay.request.method # "OPTIONS" /\ relay.request.body # "malformed"

\* C20 as amended: such a request never reaches a handler and causes no
\* ledger call; it is answered 401 by the key check, unless cors (204 for a
\* preflight) or express.json (400 for an unparsable body) answered before
\* the check ran. With no key configured every request that reaches the check
\* passes it.
C20_UnauthorizedNeverHandled ==
    relay.phase = "answered"
    => /\ KeyMissing =>
             /\ ~relay.answer.handlerRan
             /\ relay.answer.ledgerCalls = 0
             /\ relay.answer.status \in {401, 204, 400}
             /\ (relay.answer.status = 401) <=> ReachesKeyCheck
             /\ (relay.answer.status = 204) <=> (relay.request.method = "OPTIONS")
       /\ relay.answer.authRan <=> ReachesKeyCheck
       /\ (relay.apiKey \in {"(absent)", ""} /\ ReachesKeyCheck) =>
             /\ relay.answer.status # 401
             /\ relay.answer.handlerRan <=> (relay.answer.status # 404)

\* POST /sendRaw with a wrong key has been answered 401 before any handler.
C20_Witness ==
    /\ relay.phase = "answered"
    /\ relay.apiKey = "secret"
    /\ relay.request = [method |-> "POST", path |-> "/sendRaw",
                         apiKeyHeader |-> "wrong", body |-> "full"]
    /\ relay.answer = [status |-> 401, authRan |-> TRUE, handlerRan |-> FALSE,
                        ledgerCalls |-> 0]

\* The BlockhashInfo values nextBh has returned so far: each is the body of
\* one /blockhash response.
Delivered ==
    {initialBh} \cup
    {fetched[v][j] : <<v, j>> \in
        {x \in Wallets \X (1..MaxRetries) : x[2] <= Len(fetched[x[1]])}}

Pair(b, h) == [blockhash |-> b, lastValidBlockHeight |-> h]

\* C22: the shared blockhash is replaced only as a whole: in every state,
\* refreshes in flight or not, the (blockhash, lastValidBlockHeight) pair in
\* the shared slot, in a run's transaction and in each request it has sent
\* is the pair of one single /blockhash response.
C22_WholeValueReplaced ==
    /\ batch # "fetching" => cachedBh \in Delivered
    /\ \A w \in Wallets :
          Len(sent[w]) >= 1
          => /\ Pair(tx[w].recentBlockhash, tx[w].lastValidBlockHeight) \in Delivered
             /\ \A i \in 1..Len(sent[w]) :
                   Pair(sent[w][i].blockhash, sent[w][i].lastValidBlockHeight) \in Delivered

\* The slot holds the value of a completed refresh while the refresh of another
\* run, answered with a different value, is still in flight.
C22_Witness ==
    \E w \in Wallets, v \in Wallets :
        /\ w # v
        /\ Len(fetched[w]) >= 1
        /\ cachedBh = fetched[w][Len(fetched[w])]
        /\ cachedBh # initialBh
        /\ pc[v] = "refreshing"
        /\ bhResp[v].status = "ok"
        /\ bhResp[v].info # cachedBh

\* C25: in every POST /sendRaw of a run the body's blockhash and
\* lastValidBlockHeight are the ones the serialized transaction is bound to
\* and was last signed over, by the run's own signer; after refreshes too,
\* no body pairs a transaction signed over one hash with the hash or height
\* of another.
C25_BodyMatchesSignedTx ==
    \A w \in Wallets :
        \A i \in 1..Len(sent[w]) :
            LET b == sent[w][i]
            IN  /\ b.tx.recentBlockhash = b.blockhash
                /\ b.tx.signedOver = b.blockhash
                /\ b.tx.signedBy = w
                /\ \E info \in Delivered :
                      /\ info.blockhash = b.tx.signedOver
                      /\ info.lastValidBlockHeight = b.lastValidBlockHeight

\* A run has made its last submission under a refreshed binding that differs
\* from the binding of its first.
C25_Witness ==
    \E w \in Wallets :
        /\ Len(sent[w]) = MaxRetries
        /\ Len(fetched[w]) >= 1
        /\ sent[w][1].blockhash # sent[w][MaxRetries].blockhash
        /\ sent[w][MaxRetries].tx.signedOver = fetched[w][Len(fetched[w])].blockhash

\* The failed submissions of w whose message matches the staleness pattern.
StaleFailures(w) ==
    {k \in 1..Len(observed[w]) : IsFailure(observed[w][k]) /\ IsStale(observed[w][k])}

\* C26: a run has called for a fresh blockhash exactly once per failed
\* submission whose message matches /BlockhashNotFound|blockhash|expired/i,
\* so never after another failure and at most maxRetries times; after such a
\* failure on the last attempt it still refreshes and re-signs, and submits
\* nothing more.
C26_RefreshPerStaleFailure ==
    \A w \in Wallets :
        /\ refreshCalls[w] = Cardinality(StaleFailures(w))
        /\ refreshCalls[w] <= MaxRetries
        /\ Len(fetched[w]) <= refreshCalls[w]
        /\ (pc[w] = "done" /\ MaxRetries \in StaleFailures(w))
              => /\ Len(sent[w]) = MaxRetries
                 /\ Len(fetched[w]) = refreshCalls[w]
                 /\ tx[w].signedOver = fetched[w][Len(fetched[w])].blockhash
                 /\ tx[w].recentBlockhash = fetched[w][Len(fetched[w])].blockhash

\* Three stale answers, three refreshes; the last one re-signed the transaction
\* with a hash that was never submitted.
C26_Witness ==
    \E w \in Wallets :
        /\ pc[w] = "done"
        /\ StaleFailures(w) = 1..MaxRetries
        /\ refreshCalls[w] = MaxRetries
        /\ tx[w].signedOver # sent[w][MaxRetries].blockhash

\* The refresh of w's run ends in this step with the answer to its own call.
RefreshReturns(w) == pc[w] = "refreshing" /\ pc'[w] \notin {"refreshing", "thrown"}

C24_CallsTimeOut ==
    \A w \in Wallets :
        /\ (pc[w] = "submitting") ~> (pc[w] # "submitting")
        /\ (pc[w] = "refreshing") ~> (pc[w] # "refreshing")

IsFallback(o) == "error" \in DOMAIN o /\ o.error = "exhausted retries"

\* The outcome is a signature, or the message of the last failure observed.
IsClassified(r) ==
    \/ "signature" \in DOMAIN r.result
    \/ /\ "error" \in DOMAIN r.result
       /\ Len(r.errors) >= 1
       /\ r.result.error = r.errors[Len(r.errors)]

\* C23: with maxRetries >= 1 a run never ends with 'exhausted retries': it
\* ends with a signature or with the message of an observed failure; the
\* fallback is returned only when maxRetries <= 0, without any submission.
C23_FallbackOnlyWithoutLoop ==
    /\ (retry.phase \in {"returned", "thrown"} /\ retry.maxRetries2 >= 2)
          => /\ retry.phase = "returned"
             /\ ~IsFallback(retry.result)
             /\ IsClassified(retry)
    /\ (retry.phase = "returned" /\ IsFallback(retry.result))
          => (retry.maxRetries2 <= 0 /\ retry.posts = 0)

\* The places where a line of the text starts, and where that line ends.
LineStarts(raw) == {s \in 1..(Len(raw) + 1) : s = 1 \/ raw[s - 1] = LF}
LineEnd(raw, s) ==
    CHOOSE e \in s..(Len(raw) + 1) :
        /\ e = Len(raw) + 1 \/ raw[e] = LF
        /\ \A k \in s..(e - 1) : raw[k] # LF
NonBlankStarts(raw) ==
    {s \in LineStarts(raw) : \E k \in s..(LineEnd(raw, s) - 1) : raw[k] \notin Ws}
\* The i-th non-blank line, without the white space around it.
NonBlankLine(raw, i) ==
    LET s == CHOOSE t \in NonBlankStarts(raw) :
                 Cardinality({u \in NonBlankStarts(raw) : u <= t}) = i
    IN  TrimWs(SubSeq(raw, s, LineEnd(raw, s) - 1))

\* A valid line: a key pair, alone or after a prefix that ends at the first colon.
ValidLine(t) ==
    /\ t[Len(t)] \in {"K", "J"}
    /\ \/ Len(t) = 1
       \/ \E c \in 1..(Len(t) - 1) :
             /\ t[c] = ":"
             /\ \A j \in 1..(c - 1) : t[j] # ":"
             /\ \A j \in (c + 1)..(Len(t) - 1) : t[j] \in Ws

\* The name a line asks for: its prefix, or 'wallet-<i>' for the i-th non-blank line.
ExpectedName(t, i) ==
    IF Includes(t, ":") /\ t[1] # ":"
    THEN TrimWs(SubSeq(t, 1, IndexOf(t, ":") - 1))
    ELSE <<"wallet-">> \o Decimal(i)

\* C21: parseWalletBatch throws for a text with more than 30 non-blank lines;
\* otherwise it returns one wallet per non-blank line, in line order, each
\* with a 64-byte secret key and named by its 'name:' prefix or else
\* 'wallet-<line index>'; if any line is invalid the whole call throws.
C21_AtMostThirtyAllOrNothing ==
    wallet.phase = "settled"
    => LET raw == wallet.raw
           n == Cardinality(NonBlankStarts(raw))
           res == wallet.result
       IN  /\ n > WalletLimit => ~res.ok
           /\ (\E i \in 1..n : ~ValidLine(NonBlankLine(raw, i))) => ~res.ok
           /\ ~res.ok => "value" \notin DOMAIN res
           /\ res.ok
                 => /\ Len(res.value) = n
                    /\ n <= WalletLimit
                    /\ \A i \in 1..n :
                          /\ res.value[i].secret.length = 64
                          /\ res.value[i].secret.text
                                = LET t == NonBlankLine(raw, i) IN <<t[Len(t)]>>
                          /\ res.value[i].name = ExpectedName(NonBlankLine(raw, i), i)
           /\ (n <= WalletLimit /\ \A i \in 1..n : ValidLine(NonBlankLine(raw, i)))
                 => res.ok

\* Thirty keys separated by blank lines were imported, the last one named
\* 'wallet-30'.
C21_Witness ==
    /\ wallet.phase = "settled"
    /\ Len(wallet.raw) > 2 * WalletLimit
    /\ wallet.result.ok
    /\ Len(wallet.result.value) = WalletLimit
    /\ wallet.result.value[WalletLimit].name = <<"wallet-", "3", "0">>

Position(s, x) == CHOOSE i \in 1..Len(s) : s[i] = x
BatchStarted == Len(dash'.batches) = Len(dash.batches) + 1
Passed == dash'.batches[Len(dash'.batches)].signers

\* C30: the signers passed to executeBatch are the wallets whose name is
\* selected, in wallet-list order, when the selection is not empty, and every
\* loaded wallet when it is empty; 'Select at least one wallet' is raised only
\* when no wallet is loaded.
C30_SelectionPassed ==
    [][/\ Range(dash'.selected) \subseteq Range(dash'.wallets)
       /\ BatchStarted
             => /\ \A w \in Range(dash.wallets) :
                      (w \in Range(Passed))
                        <=> (dash.selected = <<>> \/ w \in Range(dash.selected))
                /\ Range(Passed) \subseteq Range(dash.wallets)
                /\ \A i, j \in 1..Len(Passed) :
                      i < j => Position(dash.wallets, Passed[i])
                                 < Position(dash.wallets, Passed[j])
       /\ (dash'.error = "Select at least one wallet" /\ dash'.error # dash.error)
             => dash.wallets = <<>>
      ]_vars

\* The last checked wallet was unchecked and the batch started after that
\* was given both wallets.
C30_Witness ==
    /\ dash.selected = <<>>
    /\ Len(dash.wallets) = 2
    /\ dash.isRunning
    /\ dash.batches[Len(dash.batches)].signers = dash.wallets

InFlight(bt) == \E i \in DOMAIN bt.runs : bt.runs[i] = "running"

\* C29: once handleExecute has set isRunning back to false no observer
\* callback of that batch fires; the results list holds only outcomes of the
\* batch started last, at most one per wallet name; and at most one batch has
\* signer runs in flight.
C29_OnlyLatestBatchObserved ==
    [][/\ (~dash.isRunning /\ ~dash'.isRunning) => dash'.calls = dash.calls
       /\ \A k \in 1..Len(dash'.results) :
             /\ dash'.results[k].batch = Len(dash'.batches)
             /\ \A l \in 1..Len(dash'.results) :
                   dash'.results[k].wallet = dash'.results[l].wallet => k = l
       /\ Cardinality({b \in 1..Len(dash'.batches) : InFlight(dash'.batches[b])}) <= 1
      ]_vars

====
